---- MODULE Spec2Model ----
(***************************************************************************)
(* The demo statistics engine of egSkeez/unbalanced (go_parser, package    *)
(* main): main() registers one handler per event kind on a demoinfocs      *)
(* parser, lets ParseToEnd() dispatch the events of one demo in arrival    *)
(* order, then derives the ratios, reads the end-of-match score snapshot,  *)
(* sorts and encodes one MatchResult document on standard output.          *)
(*                                                                         *)
(* The state is main()'s local state (stats, totalRounds, roundKills,      *)
(* firstKillOccurred, statsList, scoreT, scoreCT, mapName), the parser     *)
(* state main() queries (matchStarted, participants), the process's        *)
(* standard output and exit code, and `log`, the events dispatched so far  *)
(* with the value the match-started flag had at each dispatch.             *)
(***************************************************************************)
EXTENDS Integers, Sequences, FiniteSets, TLC

VARIABLES pc, stdout, exitCode, matchStarted, stats, totalRounds, roundKills,
          firstKillOccurred, statsList, participants, scoreT, scoreCT,
          mapName, encounter, log

vars == <<pc, stdout, exitCode, matchStarted, stats, totalRounds, roundKills,
          firstKillOccurred, statsList, participants, scoreT, scoreCT,
          mapName, encounter, log>>

(***************************************************************************)
(* Bounds of the model: the number of events one demo dispatches, in each  *)
(* of the specifications below, and the greatest Kills and Deaths of the   *)
(* records SpecDerive derives.  MaxExampleEvents counts the four events   *)
(* of ExampleStream and those of the round after it.                       *)
(***************************************************************************)
MaxEvents == 3

MaxEntryEvents == 4

MaxRoundEvents == 5

MaxMultiEvents == 7

MaxKills == 40

MaxDeaths == 25

MaxExampleEvents == 8

MaxDamageEvents == 4

MaxClutchEvents == 4

MaxFlashEvents == 4

MaxWeaponEvents == 4

MaxIdentityEvents == 3

(***************************************************************************)
(* Go maps: a map is a function on the set of its keys; a missing key      *)
(* reads as the zero value.                                                *)
(***************************************************************************)
EmptyMap == [k \in {} |-> 0]

MapGet(m, k) == IF k \in DOMAIN m THEN m[k] ELSE 0

MapPut(m, k, v) == [x \in (DOMAIN m) \cup {k} |-> IF x = k THEN v ELSE m[x]]

MapInc(m, k) == MapPut(m, k, MapGet(m, k) + 1)

(***************************************************************************)
(* *common.Player as the handlers read it: nil, or SteamID64, Name, Team.  *)
(* Team numbers are demoinfocs' common.Team: 0 unassigned, 1 spectators,   *)
(* 2 terrorists, 3 counter-terrorists.                                     *)
(***************************************************************************)
NilPlayer == [isNil |-> TRUE, SteamID64 |-> 0, Name |-> "", Team |-> 0]

Player(id, name, team) ==
    [isNil |-> FALSE, SteamID64 |-> id, Name |-> name, Team |-> team]

(***************************************************************************)
(* *common.Equipment: nil, or its Type.  String() names the type.          *)
(***************************************************************************)
NilWeapon == [isNil |-> TRUE, Type |-> "EqUnknown"]

Weapon(type) == [isNil |-> FALSE, Type |-> type]

WeaponString(w) ==
    CASE w.Type = "EqAK47" -> "AK-47"
      [] w.Type = "EqHE" -> "HE Grenade"
      [] w.Type = "EqMolotov" -> "Molotov"
      [] w.Type = "EqIncendiary" -> "Incendiary Grenade"
      [] w.Type = "EqKnife" -> "Knife"
      [] OTHER -> "UNKNOWN"

(***************************************************************************)
(* PlayerStats, and the record getStats creates for a player not yet in    *)
(* the map: identity from the player, every counter at Go's zero value.    *)
(* KD, HSPercent and ADR are kept scaled (by 100, 10 and 10).              *)
(***************************************************************************)
NewPlayerStats(p) ==
    [Player |-> p.Name, SteamID |-> p.SteamID64, TeamNum |-> p.Team,
     Kills |-> 0, Deaths |-> 0, Assists |-> 0,
     KD |-> 0, ADR |-> 0, HSPercent |-> 0, Score |-> 0,
     Damage |-> 0, UtilityDamage |-> 0, Flashed |-> 0, TeamFlashed |-> 0,
     FlashAssists |-> 0, TotalSpent |-> 0, EntryKills |-> 0,
     EntryDeaths |-> 0, ClutchWins |-> 0,
     MultiKills |-> EmptyMap, WeaponKills |-> EmptyMap,
     BombPlants |-> 0, BombDefuses |-> 0, Headshots |-> 0]

(***************************************************************************)
(* getStats(p) on the map st: the map after the call.  The pointer it      *)
(* returns is st[p.SteamID64], or nil when p is nil.                       *)
(***************************************************************************)
getStatsOverwrite(st, p) ==
    IF p.isNil THEN st
    ELSE LET id == p.SteamID64
             st1 == IF id \in DOMAIN st THEN st
                    ELSE MapPut(st, id, NewPlayerStats(p))
         IN  [st1 EXCEPT ![id].Player = p.Name, ![id].TeamNum = p.Team]

getStats(st, p) ==
    IF p.isNil THEN st
    ELSE LET id == p.SteamID64
             st1 == IF id \in DOMAIN st THEN st
                    ELSE MapPut(st, id, NewPlayerStats(p))
         IN  [st1 EXCEPT ![id].Player = IF p.Name # "" THEN p.Name ELSE @,
                         ![id].TeamNum = IF p.Team > 0 THEN p.Team ELSE @]

(***************************************************************************)
(* The order in which getStats created the records (history: a Go map      *)
(* keeps no order).                                                        *)
(***************************************************************************)
Created(enc, st, p) ==
    IF p.isNil \/ p.SteamID64 \in DOMAIN st THEN enc
    ELSE Append(enc, p.SteamID64)

Add(st, id, field, n) == [st EXCEPT ![id][field] = @ + n]

Inc(st, id, field) == Add(st, id, field, 1)

(***************************************************************************)
(* Events.  Every event is a record of one shape; a kind reads only its    *)
(* own fields: Kill{Killer, Victim, Assister, IsHeadshot, AssistedFlash,   *)
(* Weapon}, PlayerHurt{Attacker, Player, HealthDamage, Weapon},            *)
(* PlayerFlashed{Attacker, Player}, BombPlanted{Player},                   *)
(* BombDefused{Player}, RoundStart{}, RoundEnd{Winner}.  Winner is the     *)
(* team that won the round (0: none); the RoundEnd handler does not read   *)
(* it.                                                                     *)
(***************************************************************************)
Event(kind) ==
    [kind |-> kind, Killer |-> NilPlayer, Victim |-> NilPlayer,
     Assister |-> NilPlayer, IsHeadshot |-> FALSE, AssistedFlash |-> FALSE,
     Weapon |-> NilWeapon, Attacker |-> NilPlayer, Player |-> NilPlayer,
     HealthDamage |-> 0, Winner |-> 0]

RoundStartEv == Event("RoundStart")

RoundEndEv == Event("RoundEnd")

RoundEndWonBy(team) == [Event("RoundEnd") EXCEPT !.Winner = team]

KillEv(k, v, a, hs, af, w) ==
    [Event("Kill") EXCEPT !.Killer = k, !.Victim = v, !.Assister = a,
                          !.IsHeadshot = hs, !.AssistedFlash = af,
                          !.Weapon = w]

PlayerHurtEv(att, vic, dmg, w) ==
    [Event("PlayerHurt") EXCEPT !.Attacker = att, !.Player = vic,
                                !.HealthDamage = dmg, !.Weapon = w]

PlayerFlashedEv(att, vic) ==
    [Event("PlayerFlashed") EXCEPT !.Attacker = att, !.Player = vic]

BombPlantedEv(p) == [Event("BombPlanted") EXCEPT !.Player = p]

BombDefusedEv(p) == [Event("BombDefused") EXCEPT !.Player = p]

(***************************************************************************)
(* events.RoundStart: not gated by the match-started flag.                 *)
(***************************************************************************)
OnRoundStartGated ==
    IF ~matchStarted
    THEN UNCHANGED <<stats, totalRounds, roundKills, firstKillOccurred,
                     encounter>>
    ELSE /\ roundKills' = EmptyMap
         /\ firstKillOccurred' = FALSE
         /\ UNCHANGED <<stats, totalRounds, encounter>>

OnRoundStart ==
    /\ roundKills' = EmptyMap
    /\ firstKillOccurred' = FALSE
    /\ UNCHANGED <<stats, totalRounds, encounter>>

(***************************************************************************)
(* events.Kill, after the three getStats calls: the killer's counters,     *)
(* the entry logic, the victim's and the assister's counters.              *)
(***************************************************************************)
KillKillerOneWeapon(st, e) ==
    IF e.Killer.isNil THEN st
    ELSE LET k == e.Killer.SteamID64
             s1 == Inc(st, k, "Kills")
             s2 == IF e.IsHeadshot THEN Inc(s1, k, "Headshots") ELSE s1
         IN  IF e.Weapon.isNil THEN s2
             ELSE [s2 EXCEPT ![k].WeaponKills = MapInc(@, "AK-47")]

KillKillerHeadshotAlways(st, e) ==
    IF e.Killer.isNil THEN st
    ELSE LET k == e.Killer.SteamID64
             s2 == Inc(Inc(st, k, "Kills"), k, "Headshots")
         IN  IF e.Weapon.isNil THEN s2
             ELSE [s2 EXCEPT ![k].WeaponKills =
                                 MapInc(@, WeaponString(e.Weapon))]

KillKiller(st, e) ==
    IF e.Killer.isNil THEN st
    ELSE LET k == e.Killer.SteamID64
             s1 == Inc(st, k, "Kills")
             s2 == IF e.IsHeadshot THEN Inc(s1, k, "Headshots") ELSE s1
         IN  IF e.Weapon.isNil THEN s2
             ELSE [s2 EXCEPT ![k].WeaponKills =
                                 MapInc(@, WeaponString(e.Weapon))]

KillEntryEveryKill(st, e, first) ==
    IF e.Killer.isNil THEN st
    ELSE LET s1 == Inc(st, e.Killer.SteamID64, "EntryKills")
         IN  IF e.Victim.isNil THEN s1
             ELSE Inc(s1, e.Victim.SteamID64, "EntryDeaths")

KillEntry(st, e, first) ==
    IF e.Killer.isNil \/ first THEN st
    ELSE LET s1 == Inc(st, e.Killer.SteamID64, "EntryKills")
         IN  IF e.Victim.isNil THEN s1
             ELSE Inc(s1, e.Victim.SteamID64, "EntryDeaths")

KillVictimOfPlayerOnly(st, e) ==
    IF e.Victim.isNil \/ e.Killer.isNil THEN st
    ELSE Inc(st, e.Victim.SteamID64, "Deaths")

KillVictim(st, e) ==
    IF e.Victim.isNil THEN st ELSE Inc(st, e.Victim.SteamID64, "Deaths")

KillAssister(st, e) ==
    IF e.Assister.isNil THEN st
    ELSE LET s1 == Inc(st, e.Assister.SteamID64, "Assists")
         IN  IF e.AssistedFlash
             THEN Inc(s1, e.Assister.SteamID64, "FlashAssists") ELSE s1

KillCounted(e) ==
    LET s1 == getStats(stats, e.Killer)
        s2 == getStats(s1, e.Victim)
        s3 == getStats(s2, e.Assister)
    IN  /\ stats' = KillAssister(KillVictim(
                       KillEntry(KillKiller(s3, e), e, firstKillOccurred),
                       e), e)
        /\ roundKills' = IF e.Killer.isNil THEN roundKills
                         ELSE MapInc(roundKills, e.Killer.SteamID64)
        /\ firstKillOccurred' = (firstKillOccurred \/ ~e.Killer.isNil)
        /\ encounter' = Created(Created(Created(encounter, stats,
                            e.Killer), s1, e.Victim), s2, e.Assister)
        /\ UNCHANGED totalRounds

OnKillUngated(e) == KillCounted(e)

OnKill(e) ==
    IF ~matchStarted
    THEN UNCHANGED <<stats, totalRounds, roundKills, firstKillOccurred,
                     encounter>>
    ELSE KillCounted(e)

(***************************************************************************)
(* events.PlayerHurt.                                                      *)
(***************************************************************************)
UtilityTypes == {"EqMolotov", "EqIncendiary", "EqHE"}

HurtAttackerUtilityApart(st, e) ==
    LET a == e.Attacker.SteamID64
    IN  IF ~e.Weapon.isNil /\ e.Weapon.Type \in UtilityTypes
        THEN Add(st, a, "UtilityDamage", e.HealthDamage)
        ELSE Add(st, a, "Damage", e.HealthDamage)

HurtAttackerEnemyOnly(st, e) ==
    LET a == e.Attacker.SteamID64
        s1 == Add(st, a, "Damage", e.HealthDamage)
    IN  IF e.Attacker.Team = e.Player.Team THEN st
        ELSE IF ~e.Weapon.isNil /\ e.Weapon.Type \in UtilityTypes
             THEN Add(s1, a, "UtilityDamage", e.HealthDamage) ELSE s1

HurtAttacker(st, e) ==
    LET a == e.Attacker.SteamID64
        s1 == Add(st, a, "Damage", e.HealthDamage)
    IN  IF ~e.Weapon.isNil /\ e.Weapon.Type \in UtilityTypes
        THEN Add(s1, a, "UtilityDamage", e.HealthDamage) ELSE s1

OnPlayerHurt(e) ==
    IF ~matchStarted \/ e.Attacker.isNil
    THEN UNCHANGED <<stats, totalRounds, roundKills, firstKillOccurred,
                     encounter>>
    ELSE /\ stats' = HurtAttacker(getStats(stats, e.Attacker), e)
         /\ encounter' = Created(encounter, stats, e.Attacker)
         /\ UNCHANGED <<totalRounds, roundKills, firstKillOccurred>>

(***************************************************************************)
(* events.PlayerFlashed: e.Player is the blinded player, e.Attacker the    *)
(* thrower.                                                                *)
(***************************************************************************)
FlashCounterAlwaysEnemy(e) == "Flashed"

FlashCounter(e) ==
    IF e.Attacker.Team # e.Player.Team THEN "Flashed" ELSE "TeamFlashed"

OnPlayerFlashedAnyBlinded(e) ==
    IF ~matchStarted \/ e.Attacker.isNil
    THEN UNCHANGED <<stats, totalRounds, roundKills, firstKillOccurred,
                     encounter>>
    ELSE /\ stats' = Inc(getStats(stats, e.Attacker), e.Attacker.SteamID64,
                         FlashCounter(e))
         /\ encounter' = Created(encounter, stats, e.Attacker)
         /\ UNCHANGED <<totalRounds, roundKills, firstKillOccurred>>

OnPlayerFlashed(e) ==
    IF ~matchStarted \/ e.Attacker.isNil \/ e.Player.isNil
    THEN UNCHANGED <<stats, totalRounds, roundKills, firstKillOccurred,
                     encounter>>
    ELSE /\ stats' = Inc(getStats(stats, e.Attacker), e.Attacker.SteamID64,
                         FlashCounter(e))
         /\ encounter' = Created(encounter, stats, e.Attacker)
         /\ UNCHANGED <<totalRounds, roundKills, firstKillOccurred>>

(***************************************************************************)
(* events.BombPlanted and events.BombDefused.                              *)
(***************************************************************************)
OnBomb(e, field) ==
    IF ~matchStarted \/ e.Player.isNil
    THEN UNCHANGED <<stats, totalRounds, roundKills, firstKillOccurred,
                     encounter>>
    ELSE /\ stats' = Inc(getStats(stats, e.Player), e.Player.SteamID64, field)
         /\ encounter' = Created(encounter, stats, e.Player)
         /\ UNCHANGED <<totalRounds, roundKills, firstKillOccurred>>

OnBombPlantedAsDefuse(e) == OnBomb(e, "BombDefuses")

OnBombPlanted(e) == OnBomb(e, "BombPlants")

OnBombDefused(e) == OnBomb(e, "BombDefuses")

(***************************************************************************)
(* events.RoundEnd: gated by the match-started flag; counts the round and  *)
(* credits MultiKills[kills] to every player of roundKills with kills > 0  *)
(* that has a record.                                                      *)
(***************************************************************************)
CreditMultiKillsOneMore(st, rk) ==
    [id \in DOMAIN st |->
        IF id \in DOMAIN rk /\ rk[id] > 0
        THEN [st[id] EXCEPT !.MultiKills = MapInc(@, rk[id] + 1)]
        ELSE st[id]]

CreditMultiKills(st, rk) ==
    [id \in DOMAIN st |->
        IF id \in DOMAIN rk /\ rk[id] > 0
        THEN [st[id] EXCEPT !.MultiKills = MapInc(@, rk[id])]
        ELSE st[id]]

RoundEndCounted ==
    /\ totalRounds' = totalRounds + 1
    /\ stats' = CreditMultiKills(stats, roundKills)
    /\ UNCHANGED <<roundKills, firstKillOccurred, encounter>>

OnRoundEndUngated == RoundEndCounted

OnRoundEnd ==
    IF ~matchStarted
    THEN UNCHANGED <<stats, totalRounds, roundKills, firstKillOccurred,
                     encounter>>
    ELSE RoundEndCounted

(***************************************************************************)
(* The parser hands one event to the handler registered for its kind.      *)
(* `bound` is the number of events of the demo.                            *)
(***************************************************************************)
Handle(e) ==
    CASE e.kind = "RoundStart" -> OnRoundStart
      [] e.kind = "Kill" -> OnKill(e)
      [] e.kind = "PlayerHurt" -> OnPlayerHurt(e)
      [] e.kind = "PlayerFlashed" -> OnPlayerFlashed(e)
      [] e.kind = "BombPlanted" -> OnBombPlanted(e)
      [] e.kind = "BombDefused" -> OnBombDefused(e)
      [] e.kind = "RoundEnd" -> OnRoundEnd

Dispatch(e, bound) ==
    /\ pc = "parsing"
    /\ Len(log) < bound
    /\ log' = Append(log, [ev |-> e, started |-> matchStarted])
    /\ Handle(e)
    /\ UNCHANGED <<pc, stdout, exitCode, matchStarted, statsList,
                   participants, scoreT, scoreCT, mapName>>

(***************************************************************************)
(* GameState().IsMatchStarted() is the parser's: it changes between two    *)
(* events as the demo says.                                                *)
(***************************************************************************)
MatchStartedChanged ==
    /\ pc = "parsing"
    /\ matchStarted' = ~matchStarted
    /\ UNCHANGED <<pc, stdout, exitCode, stats, totalRounds, roundKills,
                   firstKillOccurred, statsList, participants, scoreT,
                   scoreCT, mapName, encounter, log>>

(***************************************************************************)
(* Standard output: the lines written, each a JSON document of             *)
(* json.Encoder.Encode or a text line of fmt.Println.                      *)
(***************************************************************************)
Encode(out, doc) == Append(out, [kind |-> "json", doc |-> doc])

Println(out, text) == Append(out, [kind |-> "text", doc |-> text])

(***************************************************************************)
(* outputError(msg): MatchResult{Error: msg}, every other field at Go's    *)
(* zero value (a nil Stats slice, empty strings, 0).                       *)
(***************************************************************************)
ErrorResult(msg) ==
    [ScoreStr |-> <<>>, Stats |-> <<>>, MapName |-> <<>>,
     ScoreT |-> 0, ScoreCT |-> 0, Error |-> msg]

outputErrorWithStats(msg) ==
    Encode(stdout, [ErrorResult(msg) EXCEPT
                      !.Stats = [i \in 1..Len(encounter) |-> stats[encounter[i]]]])

outputErrorSilent(msg) == stdout

outputError(msg) == Encode(stdout, ErrorResult(msg))

(***************************************************************************)
(* main() up to ParseToEnd: the argument check, os.Open, and the state     *)
(* the handlers start from.                                                *)
(***************************************************************************)
MainNoArgs ==
    /\ pc = "start"
    /\ stdout' = Println(stdout, "Usage: go_parser <demo_file>")
    /\ exitCode' = 1
    /\ pc' = "exited"
    /\ UNCHANGED <<matchStarted, stats, totalRounds, roundKills,
                   firstKillOccurred, statsList, participants, scoreT,
                   scoreCT, mapName, encounter, log>>

MainOpenFail ==
    /\ pc = "start"
    /\ stdout' = outputError("Error opening file")
    /\ pc' = "done"
    /\ UNCHANGED <<exitCode, matchStarted, stats, totalRounds, roundKills,
                   firstKillOccurred, statsList, participants, scoreT,
                   scoreCT, mapName, encounter, log>>

MainOpen ==
    /\ pc = "start"
    /\ pc' = "parsing"
    /\ UNCHANGED <<stdout, exitCode, matchStarted, stats, totalRounds,
                   roundKills, firstKillOccurred, statsList, participants,
                   scoreT, scoreCT, mapName, encounter, log>>

(***************************************************************************)
(* ParseToEnd() returns an error: one error document, and main returns.    *)
(***************************************************************************)
ParseToEndError ==
    /\ pc = "parsing"
    /\ stdout' = outputError("Error parsing demo")
    /\ pc' = "done"
    /\ UNCHANGED <<exitCode, matchStarted, stats, totalRounds, roundKills,
                   firstKillOccurred, statsList, participants, scoreT,
                   scoreCT, mapName, encounter, log>>

(***************************************************************************)
(* Strings that the code takes apart are sequences of characters, here     *)
(* ASCII characters.  strings.Title maps the first letter of every word    *)
(* with unicode.ToTitle, which upper-cases a lower-case letter and leaves  *)
(* any other character; a word starts at the start of the string and after *)
(* a separator, and isSeparator holds of every ASCII character that is     *)
(* not a letter, a digit or the underscore.                                *)
(***************************************************************************)
HasPrefix(s, pre) == Len(s) >= Len(pre) /\ SubSeq(s, 1, Len(pre)) = pre

LowerCase ==
    <<"a", "b", "c", "d", "e", "f", "g", "h", "i", "j", "k", "l", "m",
      "n", "o", "p", "q", "r", "s", "t", "u", "v", "w", "x", "y", "z">>

UpperCase ==
    <<"A", "B", "C", "D", "E", "F", "G", "H", "I", "J", "K", "L", "M",
      "N", "O", "P", "Q", "R", "S", "T", "U", "V", "W", "X", "Y", "Z">>

Digits == <<"0", "1", "2", "3", "4", "5", "6", "7", "8", "9">>

Range(seq) == {seq[i] : i \in DOMAIN seq}

ToUpper(c) ==
    IF c \in Range(LowerCase)
    THEN UpperCase[CHOOSE i \in DOMAIN LowerCase : LowerCase[i] = c]
    ELSE c

IsSeparator(c) ==
    c \notin Range(LowerCase) \cup Range(UpperCase) \cup Range(Digits) \cup {"_"}

Title(s) ==
    [i \in 1..Len(s) |->
        IF i = 1 \/ IsSeparator(s[i - 1]) THEN ToUpper(s[i]) ELSE s[i]]

MapTitle(m) ==
    IF HasPrefix(m, <<"d", "e", "_">>) THEN Title(SubSeq(m, 4, Len(m)))
    ELSE m

(***************************************************************************)
(* fmt.Sprintf("T %d - %d CT", scoreT, scoreCT): %d writes the decimal     *)
(* digits of a score (scores are not negative).                            *)
(***************************************************************************)
Digit(n) == <<"0", "1", "2", "3", "4", "5", "6", "7", "8", "9">>[n + 1]

RECURSIVE Itoa(_)
Itoa(n) == IF n < 10 THEN <<Digit(n)>> ELSE Append(Itoa(n \div 10), Digit(n % 10))

ScoreStrCTFirst(t, ct) ==
    <<"T", " ">> \o Itoa(ct) \o <<" ", "-", " ">> \o Itoa(t) \o <<" ", "C", "T">>

ScoreStr(t, ct) ==
    <<"T", " ">> \o Itoa(t) \o <<" ", "-", " ">> \o Itoa(ct) \o <<" ", "C", "T">>

(***************************************************************************)
(* ParseToEnd() returns nil: the team scores (a team the game state does   *)
(* not have leaves its score at 0) and the map name are read.  The game    *)
(* state's participants are those of the end of the demo.                  *)
(***************************************************************************)
NilTeam == [isNil |-> TRUE, Score |-> 0]

Team(score) == [isNil |-> FALSE, Score |-> score]

ParseToEndOk(env) ==
    /\ pc = "parsing"
    /\ scoreT' = IF env.T.isNil THEN scoreT ELSE env.T.Score
    /\ scoreCT' = IF env.CT.isNil THEN scoreCT ELSE env.CT.Score
    /\ mapName' = MapTitle(env.Map)
    /\ participants' = env.Participants
    /\ pc' = "derive"
    /\ UNCHANGED <<stdout, exitCode, matchStarted, stats, totalRounds,
                   roundKills, firstKillOccurred, statsList, encounter, log>>

(***************************************************************************)
(* The derived statistics.  The code computes in float64 and truncates     *)
(* with int(): KD = float64(int(KD*100))/100 and so on.  For Kills and     *)
(* Deaths up to 60 the truncated value is the integer quotient except at   *)
(* the <<Kills, Deaths>> pairs of FloatBelow, where the float64 product    *)
(* falls just below the exact value (23/20*100 is 114.99999999999999).     *)
(* For HSPercent (Kills up to 60) the exceptions are the                   *)
(* <<Headshots, Kills>> pairs of HSFloatBelow (23/40*100*10 is             *)
(* 574.9999999999999).  For ADR (Damage up to 6000, up to 60 rounds) the   *)
(* truncated value is the integer quotient throughout.                     *)
(***************************************************************************)
FloatBelow ==
    {<<23, 5>>, <<41, 5>>, <<46, 5>>, <<51, 5>>,
     <<23, 10>>, <<41, 10>>, <<46, 10>>, <<51, 10>>,
     <<23, 20>>, <<41, 20>>, <<46, 20>>, <<51, 20>>,
     <<29, 25>>, <<57, 25>>, <<58, 25>>, <<46, 40>>,
     <<29, 50>>, <<57, 50>>, <<58, 50>>}

HSFloatBelow == {<<23, 40>>, <<29, 50>>}

KD100(kills, deaths) ==
    IF deaths = 0 THEN kills * 100
    ELSE IF <<kills, deaths>> \in FloatBelow
         THEN ((kills * 100) \div deaths) - 1
         ELSE (kills * 100) \div deaths

HS10FullWithoutKills(headshots, kills) ==
    IF kills > 0 THEN (headshots * 1000) \div kills ELSE 1000

HS10(headshots, kills) ==
    IF kills > 0
    THEN IF <<headshots, kills>> \in HSFloatBelow
         THEN ((headshots * 1000) \div kills) - 1
         ELSE (headshots * 1000) \div kills
    ELSE 0

ADR10Undivided(damage, rounds) ==
    IF rounds > 0 THEN damage * 10 ELSE 0

ADR10(damage, rounds) ==
    IF rounds > 0 THEN (damage * 10) \div rounds ELSE 0

Derived(s, rounds) ==
    [s EXCEPT !.HSPercent = HS10(s.Headshots, s.Kills),
              !.KD = KD100(s.Kills, s.Deaths),
              !.ADR = ADR10(s.Damage, rounds)]

(***************************************************************************)
(* The loop over the stats map: Go iterates a map in an order it does not  *)
(* define, here any order `order` of the keys.  Each record gets its       *)
(* derived fields and a copy of it is appended to statsList.               *)
(***************************************************************************)
Orders(S) ==
    {o \in [1..Cardinality(S) -> S] : \A i, j \in DOMAIN o : i # j => o[i] # o[j]}

StatsListIn(order) ==
    [i \in 1..Len(order) |-> Derived(stats[order[i]], totalRounds)]

DeriveStats(order) ==
    /\ pc = "derive"
    /\ stats' = [id \in DOMAIN stats |-> Derived(stats[id], totalRounds)]
    /\ statsList' = StatsListIn(order)
    /\ pc' = "participants"
    /\ UNCHANGED <<stdout, exitCode, matchStarted, totalRounds, roundKills,
                   firstKillOccurred, participants, scoreT, scoreCT,
                   mapName, encounter, log>>

(***************************************************************************)
(* The pass over gameState.Participants().All(): getStats on each          *)
(* participant, and its Score() into the map's record.                     *)
(***************************************************************************)
RECURSIVE ScorePass(_, _)
ScorePass(st, parts) ==
    IF parts = <<>> THEN st
    ELSE LET p == Head(parts).player
             s1 == getStats(st, p)
             s2 == IF p.isNil THEN s1
                   ELSE [s1 EXCEPT ![p.SteamID64].Score = Head(parts).Score]
         IN  ScorePass(s2, Tail(parts))

RECURSIVE CreatedPass(_, _, _)
CreatedPass(enc, st, parts) ==
    IF parts = <<>> THEN enc
    ELSE CreatedPass(Created(enc, st, Head(parts).player),
                     getStats(st, Head(parts).player), Tail(parts))

ParticipantsPass ==
    /\ pc = "participants"
    /\ stats' = ScorePass(stats, participants)
    /\ encounter' = CreatedPass(encounter, stats, participants)
    /\ pc' = "sort"
    /\ UNCHANGED <<stdout, exitCode, matchStarted, totalRounds, roundKills,
                   firstKillOccurred, statsList, participants, scoreT,
                   scoreCT, mapName, log>>

(***************************************************************************)
(* sort.Slice(statsList, Score descending): for fewer than 12 elements Go  *)
(* runs an insertion sort, which moves an element left while it is         *)
(* less than (here: has a greater Score than) its left neighbour.          *)
(***************************************************************************)
Less(a, b) == a.Score > b.Score

RECURSIVE InsertLeft(_, _)
InsertLeft(sorted, x) ==
    IF sorted # <<>> /\ Less(x, sorted[Len(sorted)])
    THEN Append(InsertLeft(SubSeq(sorted, 1, Len(sorted) - 1), x),
                sorted[Len(sorted)])
    ELSE Append(sorted, x)

RECURSIVE SortSlice(_)
SortSlice(list) ==
    IF list = <<>> THEN <<>>
    ELSE InsertLeft(SortSlice(SubSeq(list, 1, Len(list) - 1)),
                    list[Len(list)])

(***************************************************************************)
(* The MatchResult of a run without error, and its encoding.               *)
(***************************************************************************)
Result(list) ==
    [ScoreStr |-> ScoreStr(scoreT, scoreCT), Stats |-> list,
     MapName |-> mapName, ScoreT |-> scoreT, ScoreCT |-> scoreCT,
     Error |-> ""]

SortAndEncode ==
    /\ pc = "sort"
    /\ statsList' = SortSlice(statsList)
    /\ stdout' = Encode(stdout, Result(SortSlice(statsList)))
    /\ pc' = "done"
    /\ UNCHANGED <<exitCode, matchStarted, stats, totalRounds, roundKills,
                   firstKillOccurred, participants, scoreT, scoreCT,
                   mapName, encounter, log>>

(***************************************************************************)
(* The state main() starts from.                                           *)
(***************************************************************************)
Init ==
    /\ pc = "start"
    /\ stdout = <<>>
    /\ exitCode = 0
    /\ matchStarted = FALSE
    /\ stats = EmptyMap
    /\ totalRounds = 0
    /\ roundKills = EmptyMap
    /\ firstKillOccurred = FALSE
    /\ statsList = <<>>
    /\ participants = <<>>
    /\ scoreT = 0
    /\ scoreCT = 0
    /\ mapName = <<>>
    /\ encounter = <<>>
    /\ log = <<>>

(***************************************************************************)
(* The players, events and end-of-demo states the specifications draw      *)
(* from.                                                                   *)
(***************************************************************************)
A == Player(1, "A", 2)

B == Player(2, "B", 3)

C == Player(3, "C", 2)

AK == Weapon("EqAK47")

HE == Weapon("EqHE")

KillAB == KillEv(A, B, C, TRUE, TRUE, AK)

KillBA == KillEv(B, A, NilPlayer, FALSE, FALSE, AK)

KillWorldB == KillEv(NilPlayer, B, NilPlayer, FALSE, FALSE, NilWeapon)

KillBNobody == KillEv(B, NilPlayer, NilPlayer, FALSE, FALSE, HE)

Events ==
    {RoundStartEv, RoundEndEv, KillAB, KillWorldB,
     PlayerHurtEv(A, B, 30, HE), PlayerFlashedEv(A, B),
     BombPlantedEv(A), BombDefusedEv(B)}

EntryEvents == {RoundStartEv, KillAB, KillBA, KillWorldB, KillBNobody}

RoundEvents == {RoundStartEv, RoundEndEv, KillAB, KillBA}

MultiEvents == {RoundStartEv, RoundEndEv, KillBA}

DustMap == <<"d", "e", "_", "d", "u", "s", "t", "2">>

OfficeMap == <<"c", "s", "_", "o", "f", "f", "i", "c", "e">>

Envs ==
    {[T |-> Team(13), CT |-> Team(7), Map |-> DustMap,
      Participants |-> <<[player |-> A, Score |-> 5],
                         [player |-> B, Score |-> 9]>>],
     [T |-> NilTeam, CT |-> Team(16), Map |-> OfficeMap,
      Participants |-> <<[player |-> B, Score |-> 4],
                         [player |-> C, Score |-> 4]>>]}

(***************************************************************************)
(* Spec: one run of the program, from main()'s first line to its return    *)
(* or exit, over demos of at most MaxEvents events.                        *)
(***************************************************************************)
Accumulate(events, bound) ==
    \/ MatchStartedChanged
    \/ \E e \in events : Dispatch(e, bound)

Finalize ==
    \/ \E env \in Envs : ParseToEndOk(env)
    \/ \E order \in Orders(DOMAIN stats) : DeriveStats(order)
    \/ ParticipantsPass
    \/ SortAndEncode

Next ==
    \/ MainNoArgs
    \/ MainOpenFail
    \/ MainOpen
    \/ Accumulate(Events, MaxEvents)
    \/ ParseToEndError
    \/ Finalize

Spec == Init /\ [][Next]_vars

(***************************************************************************)
(* SpecEntry, SpecRounds, SpecMulti: the accumulation of longer demos of   *)
(* kills and round boundaries.                                             *)
(***************************************************************************)
NextEntry == MainOpen \/ Accumulate(EntryEvents, MaxEntryEvents)

SpecEntry == Init /\ [][NextEntry]_vars

NextRounds == MainOpen \/ Accumulate(RoundEvents, MaxRoundEvents)

SpecRounds == Init /\ [][NextRounds]_vars

MatchStart == ~matchStarted /\ MatchStartedChanged

NextMulti ==
    \/ MainOpen
    \/ MatchStart
    \/ \E e \in MultiEvents : Dispatch(e, MaxMultiEvents)

SpecMulti == Init /\ [][NextMulti]_vars

(***************************************************************************)
(* SpecDerive: the derivation, the participants pass, the sort and the     *)
(* document, from the state ParseToEnd() leaves after a demo in which one  *)
(* player made up to MaxKills kills (some of them headshots), died up to   *)
(* MaxDeaths times and dealt some damage: the demo of the counted         *)
(* RoundEnds, then, in one round, A's kills (of a victim the event does    *)
(* not name, with no weapon), A's deaths (kills without a killer), A's     *)
(* damage, and a RoundStart.  The first of A's kills claimed the entry of  *)
(* its round.  The log is not kept here.                                   *)
(***************************************************************************)
DeriveRecord(kills, headshots, deaths, damage) ==
    [NewPlayerStats(A) EXCEPT !.Kills = kills, !.Headshots = headshots,
                              !.Deaths = deaths, !.Damage = damage,
                              !.EntryKills = IF kills > 0 THEN 1 ELSE 0]

InitDerive ==
    /\ pc = "derive"
    /\ stdout = <<>>
    /\ exitCode = 0
    /\ matchStarted = TRUE
    /\ \E kills \in 0..MaxKills, deaths \in 0..MaxDeaths, damage \in {0, 95} :
          \E headshots \in 0..kills :
             stats = MapPut(EmptyMap, A.SteamID64,
                            DeriveRecord(kills, headshots, deaths, damage))
    /\ totalRounds \in {0, 2}
    /\ roundKills = EmptyMap
    /\ firstKillOccurred = FALSE
    /\ statsList = <<>>
    /\ participants = <<[player |-> A, Score |-> 5]>>
    /\ scoreT = 13
    /\ scoreCT = 7
    /\ mapName = MapTitle(DustMap)
    /\ encounter = <<A.SteamID64>>
    /\ log = <<>>

NextDerive ==
    \/ \E order \in Orders(DOMAIN stats) : DeriveStats(order)
    \/ ParticipantsPass
    \/ SortAndEncode

SpecDerive == InitDerive /\ [][NextDerive]_vars

(***************************************************************************)
(* SpecExample: a demo of two rounds, all of it after the match started.   *)
(* The first round is ExampleStream: A kills B with a headshot, then C,    *)
(* both with a rifle.  The second round has no kill: after its RoundStart  *)
(* come damage, flash and bomb events, and its RoundEnd.  The demo may     *)
(* end at any event.                                                       *)
(***************************************************************************)
EnemyC == Player(3, "C", 3)

ExampleStream ==
    <<RoundStartEv, KillEv(A, B, NilPlayer, TRUE, FALSE, AK),
      KillEv(A, EnemyC, NilPlayer, FALSE, FALSE, AK), RoundEndEv>>

QuietEvents ==
    {PlayerHurtEv(B, A, 30, AK), PlayerFlashedEv(EnemyC, A), BombPlantedEv(A)}

ExampleEvent ==
    /\ matchStarted
    /\ Len(log) < Len(ExampleStream)
    /\ Dispatch(ExampleStream[Len(log) + 1], Len(ExampleStream))

SecondRoundEvent ==
    /\ matchStarted
    /\ Len(log) >= Len(ExampleStream)
    /\ \/ /\ Len(log) = Len(ExampleStream)
          /\ Dispatch(RoundStartEv, MaxExampleEvents)
       \/ /\ Len(log) > Len(ExampleStream)
          /\ log[Len(log)].ev.kind # "RoundEnd"
          /\ \E e \in QuietEvents \cup {RoundEndEv} :
                Dispatch(e, MaxExampleEvents)

NextExample ==
    \/ MainOpen
    \/ MatchStart
    \/ ExampleEvent
    \/ SecondRoundEvent
    \/ Finalize

SpecExample == Init /\ [][NextExample]_vars

(***************************************************************************)
(* SpecDamage: the accumulation of demos of PlayerHurt events: damage to   *)
(* an enemy, with a rifle, a grenade and fire, damage without an attacker  *)
(* (a fall), to oneself and to a teammate.                                 *)
(***************************************************************************)
Molotov == Weapon("EqMolotov")

Incendiary == Weapon("EqIncendiary")

DamageEvents ==
    {PlayerHurtEv(A, B, 30, AK), PlayerHurtEv(B, A, 20, HE),
     PlayerHurtEv(B, A, 8, Incendiary),
     PlayerHurtEv(NilPlayer, A, 10, NilWeapon),
     PlayerHurtEv(A, A, 5, Molotov), PlayerHurtEv(A, C, 7, AK)}

NextDamage == MainOpen \/ Accumulate(DamageEvents, MaxDamageEvents)

SpecDamage == Init /\ [][NextDamage]_vars

(***************************************************************************)
(* SpecClutch: the accumulation of demos of rounds between A and C on one  *)
(* side and B on the other: B kills C, A kills B, and a side wins the      *)
(* round.                                                                  *)
(***************************************************************************)
KillBC == KillEv(B, C, NilPlayer, FALSE, FALSE, AK)

KillAOnB == KillEv(A, B, NilPlayer, FALSE, FALSE, AK)

ClutchEvents ==
    {RoundStartEv, KillBC, KillAOnB, RoundEndWonBy(2), RoundEndWonBy(3)}

NextClutch == MainOpen \/ Accumulate(ClutchEvents, MaxClutchEvents)

SpecClutch == Init /\ [][NextClutch]_vars

(***************************************************************************)
(* SpecFlash: the accumulation of demos of PlayerFlashed events: a         *)
(* grenade that blinds an enemy, a teammate, its thrower, and events       *)
(* without a thrower or without a blinded player.                          *)
(***************************************************************************)
FlashEvents ==
    {PlayerFlashedEv(A, B), PlayerFlashedEv(B, A), PlayerFlashedEv(A, C),
     PlayerFlashedEv(A, A), PlayerFlashedEv(NilPlayer, A),
     PlayerFlashedEv(A, NilPlayer)}

NextFlash == MainOpen \/ Accumulate(FlashEvents, MaxFlashEvents)

SpecFlash == Init /\ [][NextFlash]_vars

(***************************************************************************)
(* SpecWeapons: the accumulation of demos of kills with a rifle, a         *)
(* grenade and a knife, and of a kill that carries no weapon.              *)
(***************************************************************************)
Knife == Weapon("EqKnife")

KillABWithHE == KillEv(A, B, NilPlayer, FALSE, FALSE, HE)

KillBAWithKnife == KillEv(B, A, NilPlayer, FALSE, FALSE, Knife)

KillACNoWeapon == KillEv(A, C, NilPlayer, FALSE, FALSE, NilWeapon)

WeaponEvents == {KillAB, KillABWithHE, KillBAWithKnife, KillACNoWeapon}

NextWeapons == MainOpen \/ Accumulate(WeaponEvents, MaxWeaponEvents)

SpecWeapons == Init /\ [][NextWeapons]_vars

(***************************************************************************)
(* SpecIdentity: one run over demos in which the player of SteamID64 1     *)
(* appears as A, under another name on the other side, and without name    *)
(* and team, and in which C throws a grenade that blinds nobody.           *)
(***************************************************************************)
ARenamed == Player(1, "Ax", 3)

AUnnamed == Player(1, "", 0)

ABlinded == Player(1, "Az", 3)

IdentityEvents ==
    {BombPlantedEv(A), BombDefusedEv(ARenamed),
     KillEv(B, AUnnamed, C, FALSE, FALSE, AK),
     PlayerFlashedEv(C, NilPlayer), PlayerFlashedEv(B, ABlinded)}

NextIdentity ==
    \/ MainOpen
    \/ Accumulate(IdentityEvents, MaxIdentityEvents)
    \/ Finalize

SpecIdentity == Init /\ [][NextIdentity]_vars

(***************************************************************************)
(* What the properties below read off the state: the events of the log,    *)
(* the rounds they form, the counters of a player (0 without a record),    *)
(* and the documents on standard output.                                   *)
(***************************************************************************)
Ids == {p.SteamID64 : p \in {A, B, C}}

StatIn(st, id, field) == IF id \in DOMAIN st THEN st[id][field] ELSE 0

Stat(id, field) == StatIn(stats, id, field)

Bucket(id, n) ==
    IF id \in DOMAIN stats THEN MapGet(stats[id].MultiKills, n) ELSE 0

Is(p, id) == ~p.isNil /\ p.SteamID64 = id

Kind(l, i) == l[i].ev.kind

CountedKill(l, i) == Kind(l, i) = "Kill" /\ l[i].started

\* The step dispatches an event: the log grows by the event handled.
Dispatched == Len(log') = Len(log) + 1

Handled == log'[Len(log')]

Last == log[Len(log)]

\* The index of the last RoundStart among the first n events of l, 0 if none.
RoundStartBefore(l, n) ==
    LET starts == {i \in 1..n : Kind(l, i) = "RoundStart"}
    IN  IF starts = {} THEN 0 ELSE CHOOSE i \in starts : \A j \in starts : j <= i

\* The counted kills of `id` between the last RoundStart before event n and
\* event n of l.
Tally(l, n, id) ==
    Cardinality({i \in (RoundStartBefore(l, n - 1) + 1)..(n - 1) :
                    CountedKill(l, i) /\ Is(l[i].ev.Killer, id)})

Sum(field) ==
    LET RECURSIVE Total(_)
        Total(S) == IF S = {} THEN 0
                    ELSE LET x == CHOOSE y \in S : TRUE
                         IN  Stat(x, field) + Total(S \ {x})
    IN  Total(DOMAIN stats)

Documents == {i \in DOMAIN stdout : stdout[i].kind = "json"}

ErrorDocuments(msg) == {i \in Documents : stdout[i].doc.Error = msg}

Succeeded == pc = "done" /\ stdout # <<>> /\ stdout[1].doc.Error = ""

SnapshotOf(id) == {q \in DOMAIN participants : Is(participants[q].player, id)}

Position(seq, x) == CHOOSE i \in DOMAIN seq : seq[i] = x

(***************************************************************************)
(* C1.  A Kill, PlayerHurt, PlayerFlashed, BombPlanted or BombDefused      *)
(* event handled while the match-started flag is false changes no player   *)
(* record, creates none, and leaves the per-round kill tally and the       *)
(* entry-claimed flag as they were.                                        *)
(***************************************************************************)
GatedKinds ==
    {"Kill", "PlayerHurt", "PlayerFlashed", "BombPlanted", "BombDefused"}

C1_WarmupEventsDropped ==
    [][(Dispatched /\ Handled.ev.kind \in GatedKinds /\ ~Handled.started)
          => UNCHANGED <<stats, roundKills, firstKillOccurred>>]_vars

C1_Witness ==
    /\ log # <<>>
    /\ Last.ev.kind = "Kill" /\ ~Last.started /\ ~Last.ev.Killer.isNil
    /\ \E id \in DOMAIN stats : stats[id].Kills > 0
    /\ \E i \in DOMAIN log : Kind(log, i) \in GatedKinds \ {"Kill"}
                             /\ ~log[i].started

(***************************************************************************)
(* C2.  Every player's Deaths counter equals the number of Kill events     *)
(* handled so far while the match-started flag was true in which that      *)
(* player is the victim; at the end of the stream this is the final        *)
(* counter.                                                                *)
(***************************************************************************)
KillsOfVictim(id) ==
    Cardinality({i \in DOMAIN log :
                    CountedKill(log, i) /\ Is(log[i].ev.Victim, id)})

C2_DeathsCountVictimKills ==
    \A id \in Ids : Stat(id, "Deaths") = KillsOfVictim(id)

C2_Witness ==
    \E id \in Ids :
        /\ Stat(id, "Deaths") = 2
        /\ \E i \in DOMAIN log : /\ Kind(log, i) = "Kill" /\ ~log[i].started
                                 /\ Is(log[i].ev.Victim, id)
        /\ \E i \in DOMAIN log : /\ CountedKill(log, i)
                                 /\ log[i].ev.Killer.isNil
                                 /\ Is(log[i].ev.Victim, id)

(***************************************************************************)
(* C3.  A round is the events from one RoundStart up to the next.          *)
(* As claimed: the first Kill event of a round counted after the gate      *)
(* raises the total of EntryKills by 1 and the total of EntryDeaths by 1,  *)
(* crediting its killer and its victim, and no other event of the round    *)
(* changes either total.                                                   *)
(***************************************************************************)
InRound == RoundStartBefore(log, Len(log)) > 0

CountedKillsThisRound ==
    {i \in (RoundStartBefore(log, Len(log)) + 1)..Len(log) : CountedKill(log, i)}

EntryUnchanged ==
    \A id \in Ids : /\ Stat(id, "EntryKills")' = Stat(id, "EntryKills")
                    /\ Stat(id, "EntryDeaths")' = Stat(id, "EntryDeaths")

C3_FirstKillIsEntry ==
    [][(Dispatched /\ InRound) =>
          IF Handled.ev.kind = "Kill" /\ Handled.started
             /\ CountedKillsThisRound = {}
          THEN /\ Sum("EntryKills")' = Sum("EntryKills") + 1
               /\ Sum("EntryDeaths")' = Sum("EntryDeaths") + 1
               /\ ~Handled.ev.Killer.isNil /\ ~Handled.ev.Victim.isNil
               /\ StatIn(stats', Handled.ev.Killer.SteamID64, "EntryKills")
                     = Stat(Handled.ev.Killer.SteamID64, "EntryKills") + 1
               /\ StatIn(stats', Handled.ev.Victim.SteamID64, "EntryDeaths")
                     = Stat(Handled.ev.Victim.SteamID64, "EntryDeaths") + 1
          ELSE EntryUnchanged]_vars

(***************************************************************************)
(* C3, amended.  The entry pair of a round is that of the first counted    *)
(* Kill event of the round that has a killer: that event raises the        *)
(* total of EntryKills by 1, credited to its killer, and the total of      *)
(* EntryDeaths by 1, credited to its victim, or by 0 when it has no        *)
(* victim; no other event of the round changes an EntryKills or            *)
(* EntryDeaths counter.                                                    *)
(***************************************************************************)
KillerKillsThisRound ==
    {i \in CountedKillsThisRound : ~log[i].ev.Killer.isNil}

C3_FirstKillWithKillerIsEntry ==
    [][(Dispatched /\ InRound) =>
          IF Handled.ev.kind = "Kill" /\ Handled.started
             /\ ~Handled.ev.Killer.isNil /\ KillerKillsThisRound = {}
          THEN LET k == Handled.ev.Killer.SteamID64
                   v == Handled.ev.Victim
               IN  /\ Sum("EntryKills")' = Sum("EntryKills") + 1
                   /\ StatIn(stats', k, "EntryKills")
                         = Stat(k, "EntryKills") + 1
                   /\ Sum("EntryDeaths")'
                         = Sum("EntryDeaths") + (IF v.isNil THEN 0 ELSE 1)
                   /\ v.isNil \/ StatIn(stats', v.SteamID64, "EntryDeaths")
                                    = Stat(v.SteamID64, "EntryDeaths") + 1
          ELSE EntryUnchanged]_vars

C3_Witness ==
    /\ InRound
    /\ \E i, j \in CountedKillsThisRound :
          /\ i < j
          /\ log[i].ev.Killer.isNil
          /\ \A h \in CountedKillsThisRound : i <= h
          /\ j \in KillerKillsThisRound
          /\ Stat(log[j].ev.Killer.SteamID64, "EntryKills") = 1
          /\ Stat(log[i].ev.Victim.SteamID64, "EntryDeaths") = 0

(***************************************************************************)
(* C4.  When ParseToEnd fails, the one document written carries the error  *)
(* and nothing else: no stats, an empty map name and scoreline, both       *)
(* round counts 0, whatever was accumulated before; and no derived metric  *)
(* has been computed from the partial state.                               *)
(***************************************************************************)
C4_DecodeErrorDocumentOnly ==
    \A i \in ErrorDocuments("Error parsing demo") :
        /\ Len(stdout) = 1
        /\ stdout[i].doc.Stats = <<>>
        /\ stdout[i].doc.MapName = <<>>
        /\ stdout[i].doc.ScoreStr = <<>>
        /\ stdout[i].doc.ScoreT = 0
        /\ stdout[i].doc.ScoreCT = 0
        /\ statsList = <<>>
        /\ \A id \in DOMAIN stats :
              stats[id].KD = 0 /\ stats[id].HSPercent = 0 /\ stats[id].ADR = 0

C4_Witness ==
    /\ pc = "done"
    /\ ErrorDocuments("Error parsing demo") # {}
    /\ totalRounds > 0
    /\ \E id \in DOMAIN stats : stats[id].Kills > 0 /\ stats[id].Headshots > 0

(***************************************************************************)
(* C5.  As claimed: every run ends with exactly one result document on     *)
(* standard output, on every path.                                         *)
(***************************************************************************)
Ended == pc \in {"done", "exited"}

C5_OneDocumentOnEveryPath == Ended => Cardinality(Documents) = 1

(***************************************************************************)
(* C5, amended.  A run that is given the input path ends with exactly one  *)
(* result document on standard output and nothing else, whether the file   *)
(* cannot be opened, decoding fails or the run succeeds, and writes        *)
(* nothing before it ends.  A run without the argument writes the usage    *)
(* line, which is no result document, and exits with status 1.             *)
(***************************************************************************)
C5_OneDocumentWhenGivenPath ==
    /\ pc = "done" => Cardinality(Documents) = 1 /\ Len(stdout) = 1
                      /\ exitCode = 0
    /\ pc = "exited" => /\ Documents = {}
                        /\ stdout = <<[kind |-> "text",
                                       doc |-> "Usage: go_parser <demo_file>"]>>
                        /\ exitCode = 1
    /\ ~Ended => stdout = <<>>

C5_Witness ==
    /\ Succeeded
    /\ Len(stdout[1].doc.Stats) = 3
    /\ \E i \in DOMAIN log : CountedKill(log, i)

(***************************************************************************)
(* C6.  In the document of a successful run, the Score of every player     *)
(* record is that player's score in the end-of-match snapshot.             *)
(***************************************************************************)
C6_ScoreIsSnapshotScore ==
    Succeeded =>
        \A i \in DOMAIN stdout[1].doc.Stats :
            \A q \in SnapshotOf(stdout[1].doc.Stats[i].SteamID) :
                stdout[1].doc.Stats[i].Score = participants[q].Score

(***************************************************************************)
(* C7.  The stats of the document are ordered by snapshot score,           *)
(* non-increasing, and two players of equal snapshot score are in the      *)
(* order in which their records were created.                              *)
(***************************************************************************)
C7_SortedBySnapshotScore ==
    Succeeded =>
        LET list == stdout[1].doc.Stats
        IN  \A i, j \in DOMAIN list :
              \A qi \in SnapshotOf(list[i].SteamID) :
                \A qj \in SnapshotOf(list[j].SteamID) :
                  i < j =>
                    /\ participants[qi].Score >= participants[qj].Score
                    /\ participants[qi].Score = participants[qj].Score
                         => Position(encounter, list[i].SteamID)
                               < Position(encounter, list[j].SteamID)

(***************************************************************************)
(* C8.  As claimed: for every player and n in 1..4, the multi-kill bucket  *)
(* n counts the RoundEnd events at which the player's tally of counted     *)
(* kills of the round was exactly n (each such RoundEnd raises bucket n    *)
(* by 1 and no other bucket).                                              *)
(***************************************************************************)
RoundEndsWithTally(id, n, flags) ==
    Cardinality({i \in DOMAIN log :
                    /\ Kind(log, i) = "RoundEnd"
                    /\ log[i].started \in flags
                    /\ Tally(log, i, id) = n})

RoundEndsWithTallyFrom(id, n) ==
    Cardinality({i \in DOMAIN log :
                    /\ Kind(log, i) = "RoundEnd" /\ log[i].started
                    /\ Tally(log, i, id) >= n})

\* The credits of `id` in buckets other than 1..4.
OtherBuckets(id) ==
    LET m == IF id \in DOMAIN stats THEN stats[id].MultiKills ELSE EmptyMap
        RECURSIVE Total(_)
        Total(S) == IF S = {} THEN 0
                    ELSE LET x == CHOOSE y \in S : TRUE
                         IN  m[x] + Total(S \ {x})
    IN  Total(DOMAIN m \ (1..4))

C8_BucketCountsRoundEnds ==
    \A id \in Ids : \A n \in 1..4 :
        Bucket(id, n) = RoundEndsWithTally(id, n, BOOLEAN)

(***************************************************************************)
(* C8, amended.  For every player and n in 1..4, the multi-kill bucket n   *)
(* counts the RoundEnd events handled while the match-started flag was     *)
(* true at which the player's tally of counted kills since the last        *)
(* RoundStart was exactly n: each such RoundEnd raises bucket n by 1 and   *)
(* no other bucket (the buckets outside 1..4 are credited only at         *)
(* RoundEnd events with a tally of 5 or more), and a RoundEnd handled      *)
(* while the flag is false changes no bucket.                              *)
(***************************************************************************)
C8_BucketCountsCountedRoundEnds ==
    \A id \in Ids :
        /\ \A n \in 1..4 : Bucket(id, n) = RoundEndsWithTally(id, n, {TRUE})
        /\ OtherBuckets(id) <= RoundEndsWithTallyFrom(id, 5)

C8_Witness ==
    /\ \E id \in Ids : \E n \in 2..4 : Bucket(id, n) = 1 /\ Bucket(id, 1) = 0
    /\ \E i \in DOMAIN log : Kind(log, i) = "RoundEnd" /\ ~log[i].started
                             /\ \E id \in Ids : Tally(log, i, id) > 0

(***************************************************************************)
(* C9.  The multi-kill bucket index is capped at 5: no record has a        *)
(* bucket outside 1..5, and bucket 5 counts the counted RoundEnd events    *)
(* at which the player's tally was 5 or more.                              *)
(***************************************************************************)
C9_BucketIndexCappedAtFive ==
    \A id \in DOMAIN stats :
        /\ DOMAIN stats[id].MultiKills \subseteq 1..5
        /\ Bucket(id, 5) = RoundEndsWithTallyFrom(id, 5)

(***************************************************************************)
(* C10.  As claimed: round-boundary events are not gated.  A RoundEnd      *)
(* handled while the match-started flag is false counts the round and      *)
(* credits the buckets from the tally, as a RoundStart resets the round    *)
(* state whatever the flag.                                                *)
(***************************************************************************)
TalliedPlayers == {id \in DOMAIN roundKills : roundKills[id] > 0}

C10_RoundEndNotGated ==
    [][(Dispatched /\ Handled.ev.kind = "RoundEnd" /\ ~Handled.started) =>
          /\ totalRounds' = totalRounds + 1
          /\ \A id \in TalliedPlayers :
                MapGet(stats'[id].MultiKills, roundKills[id])
                   = MapGet(stats[id].MultiKills, roundKills[id]) + 1]_vars

(***************************************************************************)
(* C10, amended.  RoundStart is not gated: whatever the flag, it empties   *)
(* the per-round tally and clears the entry-claimed flag.  RoundEnd is     *)
(* gated: handled while the match-started flag is false it does no round   *)
(* bookkeeping (the round count and every record stay as they were);       *)
(* handled while the flag is true it adds 1 to the round count.            *)
(***************************************************************************)
C10_RoundEndGatedRoundStartNot ==
    [][Dispatched =>
          /\ (Handled.ev.kind = "RoundEnd" /\ ~Handled.started)
                => UNCHANGED <<totalRounds, stats, roundKills,
                               firstKillOccurred>>
          /\ (Handled.ev.kind = "RoundEnd" /\ Handled.started)
                => totalRounds' = totalRounds + 1
          /\ Handled.ev.kind = "RoundStart"
                => /\ roundKills' = EmptyMap /\ firstKillOccurred' = FALSE
                   /\ UNCHANGED <<totalRounds, stats>>]_vars

C10_Witness ==
    /\ log # <<>>
    /\ Last.ev.kind = "RoundEnd" /\ ~Last.started
    /\ TalliedPlayers # {}
    /\ \E i \in DOMAIN log : Kind(log, i) = "RoundStart" /\ ~log[i].started


(***************************************************************************)
(* The records of the document of a successful run.                        *)
(***************************************************************************)
Emitted ==
    {stdout[1].doc.Stats[i] : i \in DOMAIN stdout[1].doc.Stats}

(***************************************************************************)
(* C11.  For every player in the output, KD (scaled by 100) is Kills*100   *)
(* when Deaths is 0, and otherwise the integer quotient of Kills*100 by    *)
(* Deaths, truncated toward zero.                                          *)
(* Violated: with 23 kills and 5 deaths the quotient is 460, and the       *)
(* float64 computation int((23.0/5.0)*100) emits 459.                      *)
(***************************************************************************)
QuotientKD(s) ==
    IF s.Deaths = 0 THEN s.Kills * 100 ELSE (s.Kills * 100) \div s.Deaths

C11_KDIsTruncatedQuotient ==
    Succeeded => \A s \in Emitted : s.KD = QuotientKD(s)

(***************************************************************************)
(* C12.  For every player in the output, HSPercent (scaled by 10) is 0     *)
(* when Kills is 0, and otherwise the integer quotient of Headshots*1000   *)
(* by Kills; it lies between 0 and 100 (0 and 1000 scaled).                *)
(* Violated: with 23 headshots in 40 kills the quotient is 575 (57.5),     *)
(* and the float64 computation int((23.0/40.0)*100*10) emits 574.          *)
(***************************************************************************)
QuotientHS(s) ==
    IF s.Kills = 0 THEN 0 ELSE (s.Headshots * 1000) \div s.Kills

C12_HSIsTruncatedQuotient ==
    Succeeded =>
        \A s \in Emitted : s.HSPercent = QuotientHS(s) /\ s.HSPercent \in 0..1000


(***************************************************************************)
(* C13.  For every player in the output, ADR (scaled by 10) is 0 when the  *)
(* total number of rounds played is 0, and otherwise the integer quotient  *)
(* of Damage*10 by the total number of rounds played.                      *)
(* As claimed, the total number of rounds played is the number of RoundEnd *)
(* events in the stream.  Violated: a RoundEnd handled while the           *)
(* match-started flag is false does not count.                             *)
(***************************************************************************)
RoundEndsSeen == Cardinality({i \in DOMAIN log : Kind(log, i) = "RoundEnd"})

RoundEndsCounted ==
    Cardinality({i \in DOMAIN log : Kind(log, i) = "RoundEnd" /\ log[i].started})

QuotientADR(s, rounds) ==
    IF rounds = 0 THEN 0 ELSE (s.Damage * 10) \div rounds

C13_ADRPerRoundEnd ==
    Succeeded => \A s \in Emitted : s.ADR = QuotientADR(s, RoundEndsSeen)

(***************************************************************************)
(* C13, amended.  The total number of rounds played is the number of       *)
(* RoundEnd events handled while the match-started flag was true.          *)
(***************************************************************************)
C13_ADRPerCountedRoundEnd ==
    Succeeded =>
        /\ totalRounds = RoundEndsCounted
        /\ \A s \in Emitted : s.ADR = QuotientADR(s, RoundEndsCounted)

\* A document after a warmup RoundEnd and a counted one: 30 damage over one
\* round played, not over two.
C13_Witness ==
    /\ Succeeded
    /\ RoundEndsSeen = 2
    /\ RoundEndsCounted = 1
    /\ \E s \in Emitted : s.Damage = 30 /\ s.ADR = 300


(***************************************************************************)
(* C14.  After a stream with no Kill event, every record of the output     *)
(* has KD 0 and HSPercent 0, whatever damage, flash, bomb and round        *)
(* events the stream contains.                                             *)
(***************************************************************************)
NoKillEvent == \A i \in DOMAIN log : Kind(log, i) # "Kill"

C14_NoKillNoRatio ==
    (Succeeded /\ NoKillEvent) =>
        \A s \in Emitted : s.KD = 0 /\ s.HSPercent = 0

\* A document with a record that dealt damage over a round played, after a
\* stream without a Kill.
C14_Witness ==
    /\ Succeeded
    /\ NoKillEvent
    /\ RoundEndsCounted > 0
    /\ \E s \in Emitted : s.Damage > 0 /\ s.ADR > 0 /\ s.KD = 0 /\ s.HSPercent = 0


(***************************************************************************)
(* C15.  Worked example: after RoundStart; Kill(A kills B, headshot,       *)
(* rifle); Kill(A kills C, rifle); RoundEnd, with the match started        *)
(* throughout and no other kill in the demo, the output has A with Kills   *)
(* 2, Headshots 1, EntryKills 1, MultiKills[2] 1, HSPercent 50.0 and KD 2, *)
(* B with Deaths 1 and EntryDeaths 1, C with Deaths 1 and EntryDeaths 0.   *)
(***************************************************************************)
ExampleRan ==
    /\ Len(log) >= Len(ExampleStream)
    /\ \A i \in DOMAIN ExampleStream :
          log[i].ev = ExampleStream[i] /\ log[i].started
    /\ \A i \in DOMAIN log : i > Len(ExampleStream) => Kind(log, i) # "Kill"

EmittedOf(id) == {s \in Emitted : s.SteamID = id}

C15_WorkedExample ==
    (Succeeded /\ ExampleRan) =>
        /\ \A id \in Ids : Cardinality(EmittedOf(id)) = 1
        /\ \A s \in EmittedOf(A.SteamID64) :
              /\ s.Kills = 2 /\ s.Headshots = 1 /\ s.EntryKills = 1
              /\ MapGet(s.MultiKills, 2) = 1
              /\ s.HSPercent = 500 /\ s.KD = 200
        /\ \A s \in EmittedOf(B.SteamID64) : s.Deaths = 1 /\ s.EntryDeaths = 1
        /\ \A s \in EmittedOf(EnemyC.SteamID64) :
              s.Deaths = 1 /\ s.EntryDeaths = 0

\* The document of the two-round match of the example.
C15_Witness ==
    /\ Succeeded
    /\ ExampleRan
    /\ totalRounds = 2
    /\ \E s \in EmittedOf(A.SteamID64) : s.Kills = 2 /\ s.Damage = 0
    /\ \E s \in EmittedOf(B.SteamID64) : s.Damage = 30


(***************************************************************************)
(* C16.  After any event stream, the sum of the Damage counters of all     *)
(* players is the sum of HealthDamage over the PlayerHurt events handled   *)
(* while the match-started flag was true that carry an attacker.           *)
(***************************************************************************)
CountedHurtWithAttacker(l, i) ==
    Kind(l, i) = "PlayerHurt" /\ l[i].started /\ ~l[i].ev.Attacker.isNil

RECURSIVE HealthDamageOf(_, _)
HealthDamageOf(l, n) ==
    IF n = 0 THEN 0
    ELSE HealthDamageOf(l, n - 1)
         + (IF CountedHurtWithAttacker(l, n) THEN l[n].ev.HealthDamage ELSE 0)

C16_DamageSumsCountedHurts ==
    Sum("Damage") = HealthDamageOf(log, Len(log))

\* Damage to an enemy, to a teammate and to oneself counted, after a hurt of
\* the warmup and a fall that count for nothing.
C16_Witness ==
    /\ Sum("Damage") = 30 + 5
    /\ Len(log) = 4
    /\ \E i \in DOMAIN log : Kind(log, i) = "PlayerHurt" /\ ~log[i].started
    /\ \E i \in DOMAIN log : log[i].started /\ log[i].ev.Attacker.isNil
    /\ \E i \in DOMAIN log :
          CountedHurtWithAttacker(log, i) /\ log[i].ev.Attacker = log[i].ev.Player


(***************************************************************************)
(* C17.  In the document of a successful run the scoreline is exactly      *)
(* "T a - b CT", where a and b are the round wins of the T side and of the *)
(* CT side at the end of the demo (0 for a side the game state does not    *)
(* have), ScoreT is a and ScoreCT is b, whatever events were processed and *)
(* whatever the player records hold.                                       *)
(***************************************************************************)
\* The end-of-demo state the run read: each of Envs has its own participants.
EndOfDemo == CHOOSE env \in Envs : env.Participants = participants

RoundWins(team) == IF team.isNil THEN 0 ELSE team.Score

Scoreline(a, b) ==
    CASE a = 13 /\ b = 7 ->
            <<"T", " ", "1", "3", " ", "-", " ", "7", " ", "C", "T">>
      [] a = 0 /\ b = 16 ->
            <<"T", " ", "0", " ", "-", " ", "1", "6", " ", "C", "T">>

C17_ScorelineFromGameState ==
    Succeeded =>
        LET doc == stdout[1].doc
            a == RoundWins(EndOfDemo.T)
            b == RoundWins(EndOfDemo.CT)
        IN  /\ doc.ScoreT = a
            /\ doc.ScoreCT = b
            /\ doc.ScoreStr = Scoreline(a, b)

\* A document with 13 and 7 round wins after a demo of one counted RoundEnd
\* and one kill.
C17_Witness ==
    /\ Succeeded
    /\ stdout[1].doc.ScoreT = 13
    /\ stdout[1].doc.ScoreCT = 7
    /\ totalRounds = 1
    /\ Sum("Kills") = 1


(***************************************************************************)
(* C18.  A clutch win is credited to player P for a round if and only if,  *)
(* at some point during that round, P's team was reduced to exactly one    *)
(* living member (P) while the opposing team still had a living member,    *)
(* and P's team won the round: ClutchWins of P is the number of such       *)
(* rounds.                                                                 *)
(* Violated: no handler writes ClutchWins.  After RoundStart; B kills C;   *)
(* A kills B; RoundEnd won by A's side, A was the last of that side alive  *)
(* against B and the side won, and ClutchWins of A is 0.                   *)
(***************************************************************************)
Roster == {A, B, C}

\* The players alive after event n of l, in the round that event n is in:
\* the roster but the victims of the round's counted kills so far.
AliveAfter(l, n) ==
    {p \in Roster :
        \A i \in (RoundStartBefore(l, n) + 1)..n :
            ~(CountedKill(l, i) /\ Is(l[i].ev.Victim, p.SteamID64))}

Side(S, team) == {p \in S : p.Team = team}

\* Event n of l is a kill that leaves p the only one of its side alive, with
\* an opponent alive.
LastAlive(l, n, p) ==
    /\ CountedKill(l, n)
    /\ Side(AliveAfter(l, n - 1), p.Team) # {p}
    /\ Side(AliveAfter(l, n), p.Team) = {p}
    /\ AliveAfter(l, n) \ Side(Roster, p.Team) # {}

\* Event n of l is the RoundEnd of a round that p won as the last alive.
ClutchWon(l, n, p) ==
    /\ Kind(l, n) = "RoundEnd"
    /\ l[n].started
    /\ l[n].ev.Winner = p.Team
    /\ \E i \in (RoundStartBefore(l, n) + 1)..(n - 1) : LastAlive(l, i, p)

C18_ClutchCreditedIffLastAliveWon ==
    \A p \in Roster :
        Stat(p.SteamID64, "ClutchWins")
            = Cardinality({n \in DOMAIN log : ClutchWon(log, n, p)})


(***************************************************************************)
(* C19.  A PlayerFlashed event handled while the match has started, with   *)
(* thrower and blinded player both present, increments exactly one         *)
(* counter by 1: the thrower's Flashed when the two are on different       *)
(* teams, the thrower's TeamFlashed when they are on the same team.        *)
(* As claimed, it changes no counter of the blinded player.  Violated: a   *)
(* thrower blinded by the own grenade is the blinded player, and its       *)
(* TeamFlashed is incremented.                                             *)
(***************************************************************************)
Counters ==
    {"Kills", "Deaths", "Assists", "Score", "Damage", "UtilityDamage",
     "Flashed", "TeamFlashed", "FlashAssists", "TotalSpent", "EntryKills",
     "EntryDeaths", "ClutchWins", "BombPlants", "BombDefuses", "Headshots"}

CountedFlash(x) ==
    /\ x.ev.kind = "PlayerFlashed"
    /\ x.started
    /\ ~x.ev.Attacker.isNil
    /\ ~x.ev.Player.isNil

FlashedCounter(e) ==
    IF e.Attacker.Team = e.Player.Team THEN "TeamFlashed" ELSE "Flashed"

\* The step increments counter c of player t by 1 and changes no other
\* counter, and no MultiKills or WeaponKills, of any player.
IncrementsOnly(t, c) ==
    /\ StatIn(stats', t, c) = StatIn(stats, t, c) + 1
    /\ \A id \in Ids, d \in Counters :
          <<id, d>> # <<t, c>> => StatIn(stats', id, d) = StatIn(stats, id, d)
    /\ \A id \in DOMAIN stats :
          /\ stats'[id].MultiKills = stats[id].MultiKills
          /\ stats'[id].WeaponKills = stats[id].WeaponKills

BlindedUnchanged(b) ==
    \A d \in Counters : StatIn(stats', b, d) = StatIn(stats, b, d)

C19_FlashIncrementsThrowerOnly ==
    [][(Dispatched /\ CountedFlash(Handled)) =>
          /\ IncrementsOnly(Handled.ev.Attacker.SteamID64,
                            FlashedCounter(Handled.ev))
          /\ BlindedUnchanged(Handled.ev.Player.SteamID64)]_vars

(***************************************************************************)
(* C19, amended.  It changes no counter of a blinded player other than the *)
(* thrower.                                                                *)
(***************************************************************************)
C19_FlashIncrementsOneThrowerCounter ==
    [][(Dispatched /\ CountedFlash(Handled)) =>
          /\ IncrementsOnly(Handled.ev.Attacker.SteamID64,
                            FlashedCounter(Handled.ev))
          /\ Handled.ev.Player.SteamID64 # Handled.ev.Attacker.SteamID64
                => BlindedUnchanged(Handled.ev.Player.SteamID64)]_vars

\* A has blinded an enemy, a teammate and, last, itself.
C19_Witness ==
    /\ log # <<>>
    /\ CountedFlash(Last)
    /\ Last.ev.Attacker = A
    /\ Last.ev.Player = A
    /\ Stat(A.SteamID64, "Flashed") = 1
    /\ Stat(A.SteamID64, "TeamFlashed") = 2
    /\ Stat(B.SteamID64, "Flashed") = 0
    /\ C.SteamID64 \notin DOMAIN stats


(***************************************************************************)
(* C20.  At most one entry-kill/entry-death pair is produced per round,    *)
(* for any interleaving of Kill events and match-started flag values: a    *)
(* round (the events from one RoundStart, or from the start of the demo,   *)
(* up to the next RoundStart) adds 1 to the total of EntryKills if it has  *)
(* a counted Kill with a killer and 0 otherwise, and adds 1 to the total   *)
(* of EntryDeaths if the first such Kill has a victim and 0 otherwise; so  *)
(* after every event each total is the number of such rounds so far.       *)
(***************************************************************************)
\* The rounds of l, each named by the index of its RoundStart (0: the events
\* before the first RoundStart).
Rounds(l) == {0} \cup {i \in DOMAIN l : Kind(l, i) = "RoundStart"}

EventsOfRound(l, r) ==
    {i \in DOMAIN l :
        i > r /\ \A j \in Rounds(l) : j > r => i < j}

KillerKillsOf(l, r) ==
    {i \in EventsOfRound(l, r) : CountedKill(l, i) /\ ~l[i].ev.Killer.isNil}

RoundsWithEntryKill(l) == {r \in Rounds(l) : KillerKillsOf(l, r) # {}}

RoundsWithEntryDeath(l) ==
    {r \in RoundsWithEntryKill(l) :
        \E i \in KillerKillsOf(l, r) :
            /\ \A j \in KillerKillsOf(l, r) : i <= j
            /\ ~l[i].ev.Victim.isNil}

C20_OneEntryPairPerRound ==
    /\ Sum("EntryKills") = Cardinality(RoundsWithEntryKill(log))
    /\ Sum("EntryDeaths") = Cardinality(RoundsWithEntryDeath(log))

\* A round with a Kill of the warmup and two counted Kills by two killers:
\* one entry kill and one entry death.
C20_Witness ==
    /\ InRound
    /\ \E i \in EventsOfRound(log, RoundStartBefore(log, Len(log))) :
          Kind(log, i) = "Kill" /\ ~log[i].started
    /\ \E i, j \in KillerKillsThisRound : log[i].ev.Killer # log[j].ev.Killer
    /\ Sum("EntryKills") = 1
    /\ Sum("EntryDeaths") = 1


(***************************************************************************)
(* C21.  Once the derived metrics of the records have been computed, no    *)
(* field of a record of the stats map is written again and no record is    *)
(* created.                                                                *)
(* Violated: the pass over the participants runs after the derivation; it  *)
(* calls getStats, which creates the record of a participant no handler    *)
(* referred to and rewrites Player and TeamNum, and it writes Score.       *)
(***************************************************************************)
DerivationDone == pc \in {"participants", "sort", "done"}

C21_RegistryFrozenAfterDerivation ==
    [][DerivationDone => stats' = stats]_vars


(***************************************************************************)
(* C22.  For every player, at every point of accumulation, the count of    *)
(* each weapon in WeaponKills is the number of counted Kills the player    *)
(* made with that weapon (each counted Kill adds 1 for exactly the weapon  *)
(* used), and, if every Kill event carries a weapon, the counts sum to     *)
(* Kills.                                                                  *)
(***************************************************************************)
WeaponNames == {"AK-47", "HE Grenade", "Knife"}

KillsWith(id, w) ==
    Cardinality({i \in DOMAIN log :
                    /\ CountedKill(log, i)
                    /\ Is(log[i].ev.Killer, id)
                    /\ ~log[i].ev.Weapon.isNil
                    /\ WeaponString(log[i].ev.Weapon) = w})

RECURSIVE MapTotal(_)
MapTotal(m) ==
    IF DOMAIN m = {} THEN 0
    ELSE LET k == CHOOSE x \in DOMAIN m : TRUE
         IN  m[k] + MapTotal([x \in DOMAIN m \ {k} |-> m[x]])

EveryKillHasWeapon ==
    \A i \in DOMAIN log : Kind(log, i) = "Kill" => ~log[i].ev.Weapon.isNil

C22_WeaponKillsSumToKills ==
    \A id \in DOMAIN stats :
        /\ DOMAIN stats[id].WeaponKills \subseteq WeaponNames
        /\ \A w \in WeaponNames :
              MapGet(stats[id].WeaponKills, w) = KillsWith(id, w)
        /\ EveryKillHasWeapon =>
              MapTotal(stats[id].WeaponKills) = stats[id].Kills

\* A killed B with a rifle and with a grenade, after a Kill of the warmup.
C22_Witness ==
    /\ EveryKillHasWeapon
    /\ \E i \in DOMAIN log : Kind(log, i) = "Kill" /\ ~log[i].started
    /\ A.SteamID64 \in DOMAIN stats
    /\ stats[A.SteamID64].Kills = 2
    /\ MapGet(stats[A.SteamID64].WeaponKills, "AK-47") = 1
    /\ MapGet(stats[A.SteamID64].WeaponKills, "HE Grenade") = 1


(***************************************************************************)
(* C23.  A counted PlayerHurt whose weapon is a molotov, an incendiary or  *)
(* a high-explosive grenade adds its HealthDamage to the attacker's Damage *)
(* and UtilityDamage, any other weapon to Damage only: each counter is the *)
(* sum over the counted hurts of its kind, and UtilityDamage <= Damage for *)
(* every player in every reachable state.                                  *)
(***************************************************************************)
UtilityWeapon(w) ==
    ~w.isNil /\ w.Type \in {"EqMolotov", "EqIncendiary", "EqHE"}

RECURSIVE HurtBy(_, _, _, _)
HurtBy(l, n, id, utilityOnly) ==
    IF n = 0 THEN 0
    ELSE HurtBy(l, n - 1, id, utilityOnly)
         + (IF /\ CountedHurtWithAttacker(l, n)
               /\ l[n].ev.Attacker.SteamID64 = id
               /\ (utilityOnly => UtilityWeapon(l[n].ev.Weapon))
            THEN l[n].ev.HealthDamage ELSE 0)

C23_UtilityDamageWithinDamage ==
    \A id \in Ids :
        /\ Stat(id, "Damage") = HurtBy(log, Len(log), id, FALSE)
        /\ Stat(id, "UtilityDamage") = HurtBy(log, Len(log), id, TRUE)
        /\ Stat(id, "UtilityDamage") <= Stat(id, "Damage")

\* B dealt all its damage with a grenade and fire, A part of it with a
\* molotov.
C23_Witness ==
    /\ Stat(B.SteamID64, "Damage") = 28
    /\ Stat(B.SteamID64, "UtilityDamage") = 28
    /\ Stat(A.SteamID64, "Damage") = 35
    /\ Stat(A.SteamID64, "UtilityDamage") = 5

(***************************************************************************)
(* C24.  A PlayerHurt event whose attacker is the victim, or is on the     *)
(* victim's team, adds nothing to the attacker's Damage.                   *)
(* Violated: the handler adds HealthDamage to the attacker's Damage        *)
(* whoever the victim is.                                                  *)
(***************************************************************************)
SelfOrTeamHurt(x) ==
    /\ x.ev.kind = "PlayerHurt"
    /\ x.started
    /\ ~x.ev.Attacker.isNil
    /\ ~x.ev.Player.isNil
    /\ \/ x.ev.Attacker.SteamID64 = x.ev.Player.SteamID64
       \/ x.ev.Attacker.Team = x.ev.Player.Team

C24_SelfAndTeamDamageExcluded ==
    [][(Dispatched /\ SelfOrTeamHurt(Handled)) =>
          StatIn(stats', Handled.ev.Attacker.SteamID64, "Damage")
             = Stat(Handled.ev.Attacker.SteamID64, "Damage")]_vars

(***************************************************************************)
(* C24, amended.  A counted PlayerHurt event whose attacker is the victim, *)
(* or is on the victim's team, adds its HealthDamage to the attacker's     *)
(* Damage, as any other counted PlayerHurt with an attacker does.          *)
(***************************************************************************)
C24_SelfAndTeamDamageCounted ==
    [][(Dispatched /\ SelfOrTeamHurt(Handled)) =>
          StatIn(stats', Handled.ev.Attacker.SteamID64, "Damage")
             = Stat(Handled.ev.Attacker.SteamID64, "Damage")
               + Handled.ev.HealthDamage]_vars

\* A hurt a teammate and then itself: both amounts are in its Damage.
C24_Witness ==
    /\ Len(log) = 2
    /\ SelfOrTeamHurt(log[1])
    /\ log[1].ev.Player = C
    /\ SelfOrTeamHurt(log[2])
    /\ log[2].ev.Player = A
    /\ Stat(A.SteamID64, "Damage") = 7 + 5


(***************************************************************************)
(* C25.  A BombPlanted (BombDefused) event handled while the match has     *)
(* started increments BombPlants (BombDefuses) of the acting player by 1   *)
(* and changes no other counter of that player, no counter of another      *)
(* player, and not the per-round kill tally, the entry-claimed flag or the *)
(* round count.                                                            *)
(***************************************************************************)
CountedBomb(x) ==
    /\ x.ev.kind \in {"BombPlanted", "BombDefused"}
    /\ x.started
    /\ ~x.ev.Player.isNil

BombCounter(e) ==
    IF e.kind = "BombPlanted" THEN "BombPlants" ELSE "BombDefuses"

C25_BombEventIncrementsOneCounter ==
    [][(Dispatched /\ CountedBomb(Handled)) =>
          /\ IncrementsOnly(Handled.ev.Player.SteamID64,
                            BombCounter(Handled.ev))
          /\ UNCHANGED <<roundKills, firstKillOccurred, totalRounds>>]_vars

\* B, killed by A in this round, has defused the bomb.
C25_Witness ==
    /\ log # <<>>
    /\ CountedBomb(Last)
    /\ Last.ev.kind = "BombDefused"
    /\ Stat(B.SteamID64, "BombDefuses") = 1
    /\ Stat(B.SteamID64, "Deaths") = 1
    /\ MapGet(roundKills, A.SteamID64) = 1
    /\ firstKillOccurred


(***************************************************************************)
(* C26.  A RoundStart event, whether or not the match has started, leaves  *)
(* the per-round kill tally empty and the entry-claimed flag cleared, and  *)
(* changes no player record (so no MultiKills bucket) and not the round    *)
(* count.                                                                  *)
(***************************************************************************)
C26_RoundStartResetsRoundOnly ==
    [][(Dispatched /\ Handled.ev.kind = "RoundStart") =>
          /\ roundKills' = EmptyMap
          /\ firstKillOccurred' = FALSE
          /\ stats' = stats
          /\ totalRounds' = totalRounds]_vars

\* A RoundStart of a pause, after a round with a kill that a RoundEnd
\* credited: the tally is empty, the bucket and the round count stay.
C26_Witness ==
    /\ log # <<>>
    /\ Last.ev.kind = "RoundStart"
    /\ ~Last.started
    /\ roundKills = EmptyMap
    /\ ~firstKillOccurred
    /\ totalRounds = 1
    /\ Bucket(A.SteamID64, 1) = 1


(***************************************************************************)
(* The players the handlers look up (getStats) for one entry of the log,   *)
(* in the order of the calls, and for the first n entries of a log.        *)
(***************************************************************************)
Present(p) == ~p.isNil

Refs(x) ==
    IF ~x.started THEN <<>>
    ELSE CASE x.ev.kind = "Kill" ->
                 SelectSeq(<<x.ev.Killer, x.ev.Victim, x.ev.Assister>>, Present)
           [] x.ev.kind = "PlayerHurt" ->
                 SelectSeq(<<x.ev.Attacker>>, Present)
           [] x.ev.kind = "PlayerFlashed" ->
                 IF Present(x.ev.Attacker) /\ Present(x.ev.Player)
                 THEN <<x.ev.Attacker>> ELSE <<>>
           [] x.ev.kind \in {"BombPlanted", "BombDefused"} ->
                 SelectSeq(<<x.ev.Player>>, Present)
           [] OTHER -> <<>>

RECURSIVE AllRefs(_, _)
AllRefs(l, n) == IF n = 0 THEN <<>> ELSE AllRefs(l, n - 1) \o Refs(l[n])

Referenced == {AllRefs(log, Len(log))[i].SteamID64 :
                  i \in DOMAIN AllRefs(log, Len(log))}

(***************************************************************************)
(* C27.  For every record of the output, Player is the name carried by the *)
(* most recent counted reference to that player with a non-empty name, and *)
(* TeamNum the team carried by the most recent counted reference with a    *)
(* non-zero team; a reference with an empty name or a zero team does not   *)
(* overwrite.  (A reference is a lookup by a handler.)                     *)
(***************************************************************************)
Named(p) == p.Name # ""

Teamed(p) == p.Team > 0

\* The last reference to id among refs that satisfies Good; NilPlayer (empty
\* name, team 0) if there is none.
LastRef(refs, id, Good(_)) ==
    LET found == {i \in DOMAIN refs : refs[i].SteamID64 = id /\ Good(refs[i])}
    IN  IF found = {} THEN NilPlayer
        ELSE refs[CHOOSE i \in found : \A j \in found : j <= i]

C27_IdentityLastSeenWins ==
    Succeeded =>
        \A s \in Emitted :
            /\ s.Player = LastRef(AllRefs(log, Len(log)), s.SteamID, Named).Name
            /\ s.TeamNum = LastRef(AllRefs(log, Len(log)), s.SteamID, Teamed).Team

\* The player planted as A, defused as Ax of the other side, and was last
\* referred to without name and team: the document has Ax, team 3.
C27_Witness ==
    /\ Succeeded
    /\ Len(log) = 3
    /\ \A i \in DOMAIN log : log[i].started
    /\ log[1].ev.kind = "BombPlanted"
    /\ log[2].ev.kind = "BombDefused"
    /\ log[3].ev.kind = "Kill"
    /\ \E s \in EmittedOf(1) : s.Player = "Ax" /\ s.TeamNum = 3

(***************************************************************************)
(* C28.  The output of a successful run has exactly one record per player  *)
(* referenced during accumulation: no two records share a SteamID, and     *)
(* every killer, victim or assister of a counted Kill, attacker of a       *)
(* counted PlayerHurt, thrower of a counted PlayerFlashed and actor of a   *)
(* counted bomb event has a record.                                        *)
(* Violated: the thrower of a counted PlayerFlashed without a blinded      *)
(* player is not looked up and gets no record.                             *)
(***************************************************************************)
Involved(x) ==
    IF ~x.started THEN {}
    ELSE {p \in (CASE x.ev.kind = "Kill" ->
                        {x.ev.Killer, x.ev.Victim, x.ev.Assister}
                   [] x.ev.kind \in {"PlayerHurt", "PlayerFlashed"} ->
                        {x.ev.Attacker}
                   [] x.ev.kind \in {"BombPlanted", "BombDefused"} ->
                        {x.ev.Player}
                   [] OTHER -> {}) : Present(p)}

InvolvedIds == {p.SteamID64 : p \in UNION {Involved(log[i]) : i \in DOMAIN log}}

OneRecordEach ==
    \A i, j \in DOMAIN stdout[1].doc.Stats :
        stdout[1].doc.Stats[i].SteamID = stdout[1].doc.Stats[j].SteamID => i = j

C28_OneRecordPerInvolvedPlayer ==
    Succeeded =>
        /\ OneRecordEach
        /\ {s.SteamID : s \in Emitted} = InvolvedIds

(***************************************************************************)
(* C28, amended.  The players with a record are the killers, victims and   *)
(* assisters of counted Kills, the attackers of counted PlayerHurts, the   *)
(* throwers of counted PlayerFlashed events that have a blinded player,    *)
(* and the actors of counted bomb events.                                  *)
(***************************************************************************)
C28_OneRecordPerReferencedPlayer ==
    Succeeded =>
        /\ OneRecordEach
        /\ {s.SteamID : s \in Emitted} = Referenced

\* C threw a grenade that blinded nobody and B one that blinded a player:
\* the document has a record of B only.
C28_Witness ==
    /\ Succeeded
    /\ \E i \in DOMAIN log :
          /\ log[i].started
          /\ log[i].ev.kind = "PlayerFlashed"
          /\ log[i].ev.Attacker = C
          /\ log[i].ev.Player.isNil
    /\ {s.SteamID : s \in Emitted} = {B.SteamID64}


(***************************************************************************)
(* C29.  Every counted kill is credited to at most one multi-kill bucket   *)
(* entry: for every player, after any sequence of RoundStart, Kill and     *)
(* RoundEnd events, the sum over n of n times MultiKills[n] does not       *)
(* exceed Kills.                                                           *)
(* Violated: a RoundEnd does not clear the per-round tally, so a second    *)
(* RoundEnd before the next RoundStart credits the same kills again.       *)
(***************************************************************************)
RECURSIVE KillsInBuckets(_)
KillsInBuckets(m) ==
    IF DOMAIN m = {} THEN 0
    ELSE LET n == CHOOSE x \in DOMAIN m : TRUE
         IN  n * m[n] + KillsInBuckets([x \in DOMAIN m \ {n} |-> m[x]])

C29_KillCreditedAtMostOnce ==
    \A id \in DOMAIN stats :
        KillsInBuckets(stats[id].MultiKills) <= stats[id].Kills


(***************************************************************************)
(* C30.  The emitted document is a function of the input: the event        *)
(* stream, the match-started flag values and the end-of-demo state fix     *)
(* the document, the order of the records of its Stats included.  In the   *)
(* state the derivation starts from, whatever order the loop over the      *)
(* stats map takes, the document encoded is the same.                      *)
(* Violated: with two records the loop may take either order, every        *)
(* copied Score is 0, and the sort keeps the order it is given.            *)
(***************************************************************************)
DocumentIn(order) == Result(SortSlice(StatsListIn(order)))

C30_DocumentDetermined ==
    pc = "derive" =>
        \A o1, o2 \in Orders(DOMAIN stats) : DocumentIn(o1) = DocumentIn(o2)

====
